---- MODULE Spec2Model ----
(***************************************************************************)
(* Model of the four-point gradient: the FourPointGradient mesh            *)
(* (FourPointGradient.ts), the page that owns it (main.ts) and the         *)
(* GradientControls panel with its preset catalog.                         *)
(*                                                                         *)
(* Units.  Anchor positions are kept in tenths (0.1 is 1, 0.9 is 9), the   *)
(* blend in hundredths (0.3 is 30, 1 is BlendScale), a colour channel as   *)
(* its numerator over 255 (the value hexToRGB divides by 255).  An         *)
(* optional argument is <<>> when omitted and <<v>> when supplied.         *)
(***************************************************************************)
EXTENDS Integers, Sequences, FiniteSets, TLC

\* ---------------------------------------------------------------- bounds
MaxOps == 2          \* handler invocations explored per behaviour
MaxSamples == 2      \* samples evaluated per render pass

\* ------------------------------------------------------------- constants
BlendScale == 100    \* the slider's hundredths: parseInt(value) / 100
DefaultWidth == 800
DefaultHeight == 600
DefaultBlend == 50   \* 0.5

None == <<>>
Some(v) == <<v>>

Max(a, b) == IF a >= b THEN a ELSE b
Min(a, b) == IF a <= b THEN a ELSE b

\* ColorPoint literal { position: [x, y], color: c }
ColorPoint(x, y, c) == [position |-> <<x, y>>, color |-> c]

\* the constructor's default points
DefaultPoints ==
    << ColorPoint(2, 2, 16776960),   \* 0xFFFF00
       ColorPoint(8, 2, 65280),      \* 0x00FF00
       ColorPoint(8, 8, 255),        \* 0x0000FF
       ColorPoint(2, 8, 16711935) >> \* 0xFF00FF

\* the points main.ts constructs the gradient with
MainPoints ==
    << ColorPoint(1, 1, 16776960),
       ColorPoint(9, 1, 65280),
       ColorPoint(9, 9, 255),
       ColorPoint(1, 9, 16711935) >>

MainBlend == 30

\* the red channel without its mask: (hex >> 16) / 255
hexToRGBRedUnmasked(hex) ==
    << hex \div 65536, (hex \div 256) % 256, hex % 256 >>

\* hexToRGB: ((hex >> 16) & 255) / 255, ((hex >> 8) & 255) / 255,
\* (hex & 255) / 255.  >> is the arithmetic shift of the 32-bit value, so
\* it is the floor division, and & 255 the non-negative remainder mod 256.
hexToRGB(hex) ==
    << (hex \div 65536) % 256, (hex \div 256) % 256, hex % 256 >>

\* the quad the geometry buffer holds
Quad(width, height) == << 0, 0, width, 0, width, height, 0, height >>

\* uniforms[key] = value: assignment to a property creates it when missing
Put(f, key, value) ==
    [k \in (DOMAIN f) \cup {key} |-> IF k = key THEN value ELSE f[k]]

\* a construction that takes the defaults as a whole unless every option
\* is supplied
ConstructAllOrNothing(options) ==
    LET all    == None \notin { options.width, options.height,
                                options.points, options.blend }
        width  == IF all THEN options.width[1] ELSE DefaultWidth
        height == IF all THEN options.height[1] ELSE DefaultHeight
        points == IF all THEN options.points[1] ELSE DefaultPoints
        blend  == IF all THEN options.blend[1] ELSE DefaultBlend
    IN  [ aVertexPosition |-> Quad(width, height),
          u_resolution    |-> <<width, height>>,
          u_point         |-> [n \in 1..4 |-> points[n].position],
          u_color         |-> [n \in 1..4 |-> hexToRGB(points[n].color)],
          u_blend         |-> blend,
          gradientWidth   |-> width,
          gradientHeight  |-> height ]

\* new FourPointGradient(options): the object after construction
Construct(options) ==
    LET width  == IF options.width = None THEN DefaultWidth ELSE options.width[1]
        height == IF options.height = None THEN DefaultHeight ELSE options.height[1]
        points == IF options.points = None THEN DefaultPoints ELSE options.points[1]
        blend  == IF options.blend = None THEN DefaultBlend ELSE options.blend[1]
    IN  [ aVertexPosition |-> Quad(width, height),
          u_resolution    |-> <<width, height>>,
          u_point         |-> [n \in 1..4 |-> points[n].position],
          u_color         |-> [n \in 1..4 |-> hexToRGB(points[n].color)],
          u_blend         |-> blend,
          gradientWidth   |-> width,
          gradientHeight  |-> height ]

\* the guard without its lower test: if (index > 3) throw
setPointThrowsAboveOnly(index) == index > 3

\* the guard with its upper limit off by one: if (index < 0 || index > 4) throw
setPointThrowsAboveFour(index) == index < 0 \/ index > 4

\* the guard of setPoint: if (index < 0 || index > 3) throw
setPointThrows(index) == index < 0 \/ index > 3

\* setPoint that writes the colour to every anchor
setPointSharedColour(g, index, position, color) ==
    IF setPointThrows(index) THEN g
    ELSE [g EXCEPT
            !.u_point = Put(@, index + 1, position),
            !.u_color = IF color # None
                        THEN [n \in DOMAIN @ |-> hexToRGB(color[1])]
                        ELSE @]

\* setPoint that writes the position and forgets the colour
setPointPositionOnly(g, index, position, color) ==
    IF setPointThrows(index) THEN g
    ELSE [g EXCEPT !.u_point = Put(@, index + 1, position)]

\* setPoint(index, position, color?): the object after the call
setPoint(g, index, position, color) ==
    IF setPointThrows(index) THEN g
    ELSE [g EXCEPT
            !.u_point = Put(@, index + 1, position),
            !.u_color = IF color # None
                        THEN Put(@, index + 1, hexToRGB(color[1]))
                        ELSE @]

\* the clamp without its upper limit: Math.max(0, value)
clampBlendBelowOnly(value) == Max(0, value)

\* Math.max(0, Math.min(1, value))
clampBlend(value) == Max(0, Min(BlendScale, value))

\* setBlend(value)
setBlend(g, value) == [g EXCEPT !.u_blend = clampBlend(value)]

\* resize that leaves the geometry buffer as it was
resizeKeepingQuad(g, width, height) ==
    [g EXCEPT !.gradientWidth = width,
              !.gradientHeight = height,
              !.u_resolution = <<width, height>>]

\* resize that also rescales the anchors to the new surface
resizeRescalingPoints(g, width, height) ==
    [g EXCEPT !.gradientWidth = width,
              !.gradientHeight = height,
              !.u_resolution = <<width, height>>,
              !.aVertexPosition = Quad(width, height),
              !.u_point = [n \in DOMAIN @ |-> <<@[n][1] * width, @[n][2] * height>>]]

\* resize(width, height); the buffer exists since construction
resize(g, width, height) ==
    [g EXCEPT !.gradientWidth = width,
              !.gradientHeight = height,
              !.u_resolution = <<width, height>>,
              !.aVertexPosition = Quad(width, height)]

\* ------------------------------------------------------ the two shaders
\* The shaders are evaluated in exact arithmetic.  A rational is [n, d] in
\* lowest terms with d > 0.  A distance is kept as its square.  A power
\* pow(d, k) is kept as the exact term [base, exponent] it denotes: the
\* value sqrt(base) ^ (exponent / (2 * BlendScale)), where the exponent is
\* in the units of mix(1, 8, blend) (halves, times BlendScale).  A sum of
\* terms is the function giving each term its integer coefficient.

Abs(x) == IF x < 0 THEN 0 - x ELSE x

RECURSIVE Gcd(_, _)
Gcd(a, b) == IF b = 0 THEN a ELSE Gcd(b, a % b)

Rat(n, d) ==
    LET g == Gcd(Abs(n), Abs(d))
        s == IF d < 0 THEN 0 - 1 ELSE 1
    IN  [n |-> (s * n) \div g, d |-> (s * d) \div g]

RatAdd(a, b) == Rat(a.n * b.d + b.n * a.d, a.d * b.d)
RatSub(a, b) == Rat(a.n * b.d - b.n * a.d, a.d * b.d)
RatMul(a, b) == Rat(a.n * b.n, a.d * b.d)
RatDiv(a, b) == Rat(a.n * b.d, a.d * b.n)

\* the vertex shader: vUV = aVertexPosition, interpolated over the quad; the
\* sample is the fragment at the fraction `sample` (in tenths) of the quad
varyingUV(g, sample) ==
    << Rat(sample[1] * g.aVertexPosition[3], 10),
       Rat(sample[2] * g.aVertexPosition[6], 10) >>

\* pos = vUV / u_resolution.x in both components
normalizedPositionByWidth(vUV, u_resolution) ==
    << RatDiv(vUV[1], Rat(u_resolution[1], 1)),
       RatDiv(vUV[2], Rat(u_resolution[1], 1)) >>

\* vec2 pos = vUV / u_resolution
normalizedPosition(vUV, u_resolution) ==
    << RatDiv(vUV[1], Rat(u_resolution[1], 1)),
       RatDiv(vUV[2], Rat(u_resolution[2], 1)) >>

\* distance(pos, p), squared; the anchor p is in tenths
distance(pos, p) ==
    LET dx == RatSub(pos[1], Rat(p[1], 10))
        dy == RatSub(pos[2], Rat(p[2], 10))
    IN  RatAdd(RatMul(dx, dx), RatMul(dy, dy))

\* d4 computed from u_point3
distancesThirdTwice(pos, u_point) ==
    [i \in 1..4 |-> distance(pos, u_point[IF i = 4 THEN 3 ELSE i])]

\* d1..d4 = distance(pos, u_point1..4)
distances(pos, u_point) == [i \in 1..4 |-> distance(pos, u_point[i])]

\* 0.0001, squared
MinDistance == [n |-> 1, d |-> 100000000]

\* the distance left as it is
floorDistanceMissing(d) == d

\* max(d, 0.0001): d < 0.0001 iff d.n * 10^8 < d.d iff d.n < ceil(d.d / 10^8)
floorDistance(d) ==
    IF d.n < (d.d + (MinDistance.d - 1)) \div MinDistance.d
    THEN MinDistance
    ELSE d

\* mix with its ends exchanged
mixSwapped(x, y, a) == y * (BlendScale - a) + x * a

\* mix(x, y, a) = x * (1 - a) + y * a, times BlendScale
mix(x, y, a) == x * (BlendScale - a) + y * a

\* float k = mix(0.5, 4.0, u_blend)
exponent(u_blend) == mix(1, 8, u_blend)

\* pow(d, k)
pow(d, k) == [base |-> d, exponent |-> k]

\* the weights without the reciprocal: w = pow(d, k)
weightsNotInverted(d, k) == [i \in 1..4 |-> pow(d[i], k)]

\* the last weight with a fixed exponent: w4 = 1.0 / pow(d4, 2.0)
weightsLastSquared(d, k) ==
    [i \in 1..4 |-> pow(d[i], 0 - (IF i = 4 THEN 4 * BlendScale ELSE k))]

\* w1..w4 = 1.0 / pow(d1..d4, k)
weights(d, k) == [i \in 1..4 |-> pow(d[i], 0 - k)]

\* a weight is a positive finite number when its base is not zero
Finite(w) == w.base.n > 0

Sum4(f) == f[1] + f[2] + f[3] + f[4]

\* c1 * w1 + c2 * w2 + c3 * w3 + c4 * w4
Combine(w, c) ==
    LET coef(a) == Sum4([i \in 1..4 |-> IF w[i] = a THEN c[i] ELSE 0])
    IN  [a \in { x \in { w[i] : i \in 1..4 } : coef(x) # 0 } |-> coef(a)]

\* f + g
SumAdd(f, g) ==
    LET coef(a) == (IF a \in DOMAIN f THEN f[a] ELSE 0)
                   + (IF a \in DOMAIN g THEN g[a] ELSE 0)
    IN  [a \in { x \in (DOMAIN f) \cup (DOMAIN g) : coef(x) # 0 } |-> coef(a)]

\* c * f
SumScale(f, c) == [a \in { x \in DOMAIN f : c # 0 } |-> c * f[a]]

\* the total without the last weight
totalWeightOmitsFourth(w) == Combine(w, <<1, 1, 1, 0>>)

\* float totalWeight = w1 + w2 + w3 + w4
totalWeight(w) == Combine(w, <<1, 1, 1, 1>>)

\* w1 /= totalWeight, ..., w4 /= totalWeight
normalize(w, total) ==
    [i \in 1..4 |->
        [num |-> Combine(w, [j \in 1..4 |-> IF j = i THEN 1 ELSE 0]),
         den |-> total]]

\* the colours added without their weights
blendColorsUnweighted(wn, u_color) ==
    [c \in 1..3 |->
        [num |-> SumScale(wn[1].den, Sum4([i \in 1..4 |-> u_color[i][c]])),
         den |-> wn[1].den]]

\* the sum without its last term
blendColorsOmitsFourth(wn, u_color) ==
    [c \in 1..3 |->
        [num |-> SumAdd(SumAdd(SumScale(wn[1].num, u_color[1][c]),
                               SumScale(wn[2].num, u_color[2][c])),
                        SumScale(wn[3].num, u_color[3][c])),
         den |-> wn[1].den]]

\* vec3 color = w1 * u_color1 + w2 * u_color2 + w3 * u_color3 + w4 * u_color4;
\* a channel is in the 255ths of the stored colours
blendColors(wn, u_color) ==
    [c \in 1..3 |->
        [num |-> SumAdd(SumAdd(SumScale(wn[1].num, u_color[1][c]),
                               SumScale(wn[2].num, u_color[2][c])),
                        SumAdd(SumScale(wn[3].num, u_color[3][c]),
                               SumScale(wn[4].num, u_color[4][c]))),
         den |-> wn[1].den]]

\* the fragment shader's main for the fragment with varying vUV; a zero
\* u_resolution makes pos, and so the colour, undefined
fragmentMain(g, vUV) ==
    IF g.u_resolution[1] = 0 \/ g.u_resolution[2] = 0
    THEN [defined |-> FALSE]
    ELSE LET pos   == normalizedPosition(vUV, g.u_resolution)
             d     == [i \in 1..4 |-> floorDistance(distances(pos, g.u_point)[i])]
             k     == exponent(g.u_blend)
             w     == weights(d, k)
             total == totalWeight(w)
             wn    == normalize(w, total)
         IN  [ defined |-> TRUE, pos |-> pos, d |-> d, k |-> k, w |-> w,
               totalWeight |-> total, normalized |-> wn,
               gl_FragColor |-> blendColors(wn, g.u_color) ]

\* ------------------------------------------------------- preset catalog
PresetNames == {"afterEffects", "sunset", "ocean", "fire"}

\* const presets: Record<string, Preset>
presetsCatalog ==
    [ afterEffects |->
        [ points |-> << ColorPoint(1, 1, 16776960),    \* 0xFFFF00
                        ColorPoint(9, 1, 65280),       \* 0x00FF00
                        ColorPoint(9, 9, 255),         \* 0x0000FF
                        ColorPoint(1, 9, 16711935) >>, \* 0xFF00FF
          blend |-> 30 ],
      sunset |->
        [ points |-> << ColorPoint(5, 1, 16753920),    \* 0xFFA500
                        ColorPoint(9, 5, 16739179),    \* 0xFF6B6B
                        ColorPoint(5, 9, 4853326),     \* 0x4A0E4E
                        ColorPoint(1, 5, 16716947) >>, \* 0xFF1493
          blend |-> 70 ],
      ocean |->
        [ points |-> << ColorPoint(1, 1, 52945),       \* 0x00CED1
                        ColorPoint(9, 1, 2003199),     \* 0x1E90FF
                        ColorPoint(9, 9, 128),         \* 0x000080
                        ColorPoint(1, 9, 4620980) >>,  \* 0x4682B4
          blend |-> 40 ],
      fire |->
        [ points |-> << ColorPoint(5, 1, 16766720),    \* 0xFFD700
                        ColorPoint(9, 5, 16729344),    \* 0xFF4500
                        ColorPoint(5, 9, 9109504),     \* 0x8B0000
                        ColorPoint(1, 5, 16747520) >>, \* 0xFF8C00
          blend |-> 60 ] ]

\* names every object inherits from Object.prototype
ObjectPrototypeNames == { "constructor" }

\* [...preset.points]: a new array of the SAME point objects; an element is
\* the reference to the catalog object it shares
spreadPoints(catalog, name) ==
    [ n \in 1..Len(catalog[name].points) |-> [preset |-> name, slot |-> n] ]

\* the keys of setupKeyboardShortcuts: presetNames[parseInt(e.key) - 1]
keyPresetNames == << "afterEffects", "sunset", "ocean", "fire" >>

\* e.key >= '1' && e.key <= '4', then parseInt(e.key) - 1
keyIndex == [ k \in {"1", "2", "3", "4"} |->
                CASE k = "1" -> 0 [] k = "2" -> 1 [] k = "3" -> 2 [] k = "4" -> 3 ]

\* ----------------------------------------------------------------- inputs
IndexInputs == -1..4
PositionInputs == { <<3, 7>> }
ColorInputs == { 0 - 2, 16777471 }
BlendInputs == { 0 - 50, 25, 150 }
DimInputs == { <<0, 2>>, <<2, 0 - 1>>, <<2, 1>>, <<3, 2>> }
SliderInputs == { 0, BlendScale }
PickerInputs == { 1193046 }                   \* "#123456"
PresetInputs == PresetNames \cup { "neon", "constructor" }   \* data-preset of a button
KeyInputs == { "1", "2", "3", "4", "5", "h" }

CentreSample == { <<5, 5>> }                   \* the fragment at the centre
SampleInputs == { <<5, 5>>, <<1, 1>>, <<3, 7>>, <<9, 4>> }

FivePoints == MainPoints \o << ColorPoint(5, 5, 16777215) >>

ConstructorOptions ==
    [ width  : {None, Some(0)},
      height : {None, Some(1)},
      points : {None, Some(MainPoints), Some(FivePoints)},
      blend  : {None, Some(MainBlend), Some(150)} ]

VARIABLES
    gradient,   \* the FourPointGradient object: uniforms, geometry, fields
    presets,    \* the module-level preset catalog (its point objects)
    controls,   \* the GradientControls object: currentPreset, currentPoints
    pc,         \* the position of the running applyPreset, or idle
    pass,       \* the position of the running render pass, or idle
    seen,       \* what the samples of the running pass have read
    last,       \* the last call made and how it ended
    nops,       \* handler invocations so far
    frag        \* the fragment the pass shaded last: its sample and output

vars == << gradient, presets, controls, pc, pass, seen, last, nops, frag >>

NoError == "none"
IndexError == "Point index must be between 0 and 3"
TypeError == "undefined is not iterable"

Idle == [at |-> "idle", preset |-> "", i |-> 0]
NoPass == [at |-> "idle", n |-> 0]
NoFrag == [shaded |-> FALSE]

\* dispatch that does not wait for the running handler to return
MayDispatchDuringHandler(handlerAt, passAt) == passAt = "idle"

\* dispatch that does not wait for the running render pass to end
MayDispatchDuringPass(handlerAt, passAt) == handlerAt = "idle"

\* a callback of the page starts only when the one before it has returned
MayDispatch(handlerAt, passAt) == handlerAt = "idle" /\ passAt = "idle"

Ready == MayDispatch(pc.at, pass.at) /\ nops < MaxOps

Init ==
    /\ \E options \in ConstructorOptions :
          /\ gradient = Construct(options)
          /\ last = [op |-> "constructor", options |-> options, threw |-> NoError]
    /\ presets = presetsCatalog
    /\ controls = [ currentPreset |-> "afterEffects",
                    currentPoints |-> spreadPoints(presetsCatalog, "afterEffects") ]
    /\ pc = Idle
    /\ pass = NoPass
    /\ seen = {}
    /\ nops = 0
    /\ frag = NoFrag

\* gradient.setPoint(index, position, color?) from a caller
CallSetPoint(index, position, color) ==
    /\ Ready
    /\ gradient' = setPoint(gradient, index, position, color)
    /\ last' = [op |-> "setPoint", index |-> index, position |-> position,
                color |-> color,
                threw |-> IF setPointThrows(index) THEN IndexError ELSE NoError]
    /\ nops' = nops + 1
    /\ UNCHANGED << presets, controls, pc, pass, seen, frag >>

\* gradient.setBlend(value) from a caller
CallSetBlend(value) ==
    /\ Ready
    /\ gradient' = setBlend(gradient, value)
    /\ last' = [op |-> "setBlend", value |-> value, threw |-> NoError]
    /\ nops' = nops + 1
    /\ UNCHANGED << presets, controls, pc, pass, seen, frag >>

\* the window's resize handler: gradient.resize(innerWidth, innerHeight)
CallResize(width, height) ==
    /\ Ready
    /\ gradient' = resize(gradient, width, height)
    /\ last' = [op |-> "resize", width |-> width, height |-> height,
                threw |-> NoError]
    /\ nops' = nops + 1
    /\ UNCHANGED << presets, controls, pc, pass, seen, frag >>

\* the blend slider's input handler: setBlend(parseInt(value) / 100)
BlendSliderInput(value) ==
    /\ Ready
    /\ gradient' = setBlend(gradient, value)
    /\ last' = [op |-> "setBlend", value |-> value, threw |-> NoError]
    /\ nops' = nops + 1
    /\ UNCHANGED << presets, controls, pc, pass, seen, frag >>

\* the colour input handler of point `index`; `point` is the object the
\* forEach of setupColorControls closed over: afterEffects' point `index`
ColorInput(index, color) ==
    /\ Ready
    /\ LET ref   == controls.currentPoints[index + 1]
           point == presets["afterEffects"].points[index + 1]
       IN  /\ presets' = [presets EXCEPT
                            ![ref.preset].points[ref.slot].color = color]
           /\ gradient' = setPoint(gradient, index, point.position, Some(color))
           /\ last' = [op |-> "colorInput", index |-> index,
                       position |-> point.position, color |-> Some(color),
                       threw |-> NoError]
    /\ nops' = nops + 1
    /\ UNCHANGED << controls, pc, pass, seen, frag >>

\* applyPreset(presetName), up to the first forEach.  presets[presetName]
\* looks the name up in the object and then in Object.prototype: for an
\* inherited name it is a function, not a preset, so the guard lets it
\* pass, currentPreset is assigned, and spreading its undefined `points`
\* throws
applyPresetBegin(presetName) ==
    IF presetName \in ObjectPrototypeNames \ DOMAIN presets
    THEN /\ controls' = [controls EXCEPT !.currentPreset = presetName]
         /\ last' = [op |-> "applyPreset", preset |-> presetName,
                     applied |-> FALSE, threw |-> TypeError]
         /\ UNCHANGED << gradient, presets, pc, pass, seen >>
    ELSE IF presetName \notin DOMAIN presets
    THEN /\ last' = [op |-> "applyPreset", preset |-> presetName,
                     applied |-> FALSE, threw |-> NoError]
         /\ UNCHANGED << gradient, presets, controls, pc, pass, seen >>
    ELSE /\ controls' = [ currentPreset |-> presetName,
                          currentPoints |-> spreadPoints(presets, presetName) ]
         /\ pc' = [at |-> "applyPreset", preset |-> presetName, i |-> 0]
         /\ last' = [op |-> "applyPreset", preset |-> presetName,
                     applied |-> TRUE, threw |-> NoError]
         /\ UNCHANGED << gradient, presets, pass, seen >>

\* a click on a [data-preset] button
PresetClick(presetName) ==
    /\ Ready
    /\ applyPresetBegin(presetName)
    /\ nops' = nops + 1
    /\ UNCHANGED frag

\* keydown: 'h' toggles the panel, '1'..'4' apply a preset
KeyDown(key) ==
    /\ Ready
    /\ nops' = nops + 1
    /\ UNCHANGED frag
    /\ IF key \in DOMAIN keyIndex /\ keyIndex[key] < Len(keyPresetNames)
       THEN applyPresetBegin(keyPresetNames[keyIndex[key] + 1])
       ELSE /\ last' = [op |-> "keydown", key |-> key, threw |-> NoError]
            /\ UNCHANGED << gradient, presets, controls, pc, pass, seen >>

\* one iteration of preset.points.forEach: setPoint(index, position, color);
\* a throw ends the handler
ApplyPresetPoint ==
    /\ pc.at = "applyPreset"
    /\ pc.i < Len(presets[pc.preset].points)
    /\ LET point == presets[pc.preset].points[pc.i + 1]
       IN  /\ gradient' = setPoint(gradient, pc.i, point.position, Some(point.color))
           /\ pc' = IF setPointThrows(pc.i) THEN Idle ELSE [pc EXCEPT !.i = @ + 1]
           /\ last' = [last EXCEPT !.threw =
                         IF setPointThrows(pc.i) THEN IndexError ELSE NoError]
    /\ UNCHANGED << presets, controls, pass, seen, nops, frag >>

\* after the forEach: setBlend(preset.blend), and the handler returns
ApplyPresetBlend ==
    /\ pc.at = "applyPreset"
    /\ pc.i = Len(presets[pc.preset].points)
    /\ gradient' = setBlend(gradient, presets[pc.preset].blend)
    /\ pc' = Idle
    /\ UNCHANGED << presets, controls, pass, seen, last, nops, frag >>

\* the ticker's frame callback starts a render pass of the stage
RenderBegin ==
    /\ MayDispatch(pc.at, pass.at)
    /\ pass' = [at |-> "sampling", n |-> 0]
    /\ seen' = {}
    /\ frag' = NoFrag
    /\ UNCHANGED << gradient, presets, controls, pc, last, nops >>

\* a sample that writes back: the first anchor follows the fragment shaded
RenderSampleFeedback(sample) ==
    /\ pass.at = "sampling"
    /\ pass.n < MaxSamples
    /\ seen' = seen \cup { [uniforms |-> gradient, during |-> pc.at] }
    /\ frag' = [ shaded |-> TRUE, sample |-> sample,
                 out |-> fragmentMain(gradient, varyingUV(gradient, sample)) ]
    /\ gradient' = [gradient EXCEPT !.u_point[1] = sample]
    /\ pass' = [pass EXCEPT !.n = @ + 1]
    /\ UNCHANGED << presets, controls, pc, last, nops >>

\* a sample that reads a blend still on its way from the default to the value
\* that was set
RenderSampleAnimated(sample) ==
    /\ pass.at = "sampling"
    /\ pass.n < MaxSamples
    /\ LET shown == [gradient EXCEPT !.u_blend = (@ + DefaultBlend) \div 2]
       IN  /\ seen' = seen \cup { [uniforms |-> shown, during |-> pc.at] }
           /\ frag' = [ shaded |-> TRUE, sample |-> sample,
                        out |-> fragmentMain(shown, varyingUV(shown, sample)) ]
    /\ pass' = [pass EXCEPT !.n = @ + 1]
    /\ UNCHANGED << gradient, presets, controls, pc, last, nops >>

\* the fragment shader runs for one sample: it reads the uniforms and
\* writes the fragment's colour
RenderSample(sample) ==
    /\ pass.at = "sampling"
    /\ pass.n < MaxSamples
    /\ seen' = seen \cup { [uniforms |-> gradient, during |-> pc.at] }
    /\ frag' = [ shaded |-> TRUE, sample |-> sample,
                 out |-> fragmentMain(gradient, varyingUV(gradient, sample)) ]
    /\ pass' = [pass EXCEPT !.n = @ + 1]
    /\ UNCHANGED << gradient, presets, controls, pc, last, nops >>

\* the pass has shaded its samples
RenderEnd ==
    /\ pass.at = "sampling"
    /\ pass.n = MaxSamples
    /\ pass' = NoPass
    /\ seen' = {}
    /\ frag' = NoFrag
    /\ UNCHANGED << gradient, presets, controls, pc, last, nops >>

Next ==
    \/ \E index \in IndexInputs, position \in PositionInputs,
          color \in {None} \cup { Some(c) : c \in ColorInputs } :
            CallSetPoint(index, position, color)
    \/ \E value \in BlendInputs : CallSetBlend(value)
    \/ \E dim \in DimInputs : CallResize(dim[1], dim[2])
    \/ \E value \in SliderInputs : BlendSliderInput(value)
    \/ \E index \in 0..3, color \in PickerInputs : ColorInput(index, color)
    \/ \E presetName \in PresetInputs : PresetClick(presetName)
    \/ \E key \in KeyInputs : KeyDown(key)
    \/ ApplyPresetPoint
    \/ ApplyPresetBlend
    \/ RenderBegin
    \/ \E sample \in CentreSample : RenderSample(sample)
    \/ RenderEnd

Spec == Init /\ [][Next]_vars

\* ------------------------------------------- the evaluator on valid states
\* constructions with positive dimensions and a blend inside [0,1]
EvalOptions ==
    [ width  : {None},
      height : {None},
      points : {None, Some(MainPoints)},
      blend  : {None, Some(MainBlend)} ]

PositiveDimInputs == { dim \in DimInputs : dim[1] > 0 /\ dim[2] > 0 }

InitEval ==
    /\ \E options \in EvalOptions :
          /\ gradient = Construct(options)
          /\ last = [op |-> "constructor", options |-> options, threw |-> NoError]
    /\ presets = presetsCatalog
    /\ controls = [ currentPreset |-> "afterEffects",
                    currentPoints |-> spreadPoints(presetsCatalog, "afterEffects") ]
    /\ pc = Idle
    /\ pass = NoPass
    /\ seen = {}
    /\ nops = 0
    /\ frag = NoFrag

NextEval ==
    \/ \E index \in {0, 3}, position \in PositionInputs,
          color \in {None} \cup { Some(c) : c \in ColorInputs } :
            CallSetPoint(index, position, color)
    \/ \E value \in BlendInputs : CallSetBlend(value)
    \/ \E dim \in PositiveDimInputs : CallResize(dim[1], dim[2])
    \/ RenderBegin
    \/ \E sample \in SampleInputs : RenderSample(sample)
    \/ RenderEnd

SpecEval == InitEval /\ [][NextEval]_vars

\* ------------------------------- presets of other sizes in the catalog
\* the catalog with a three-point and a five-point preset added
bulkCatalog ==
    [ name \in PresetNames \cup {"short", "long"} |->
        IF name = "short"
        THEN [ points |-> SubSeq(presetsCatalog["sunset"].points, 1, 3),
               blend |-> presetsCatalog["sunset"].blend ]
        ELSE IF name = "long"
        THEN [ points |-> presetsCatalog["fire"].points
                            \o << ColorPoint(5, 5, 16777215) >>,
               blend |-> presetsCatalog["fire"].blend ]
        ELSE presetsCatalog[name] ]

InitBulk ==
    /\ \E options \in EvalOptions :
          /\ gradient = Construct(options)
          /\ last = [op |-> "constructor", options |-> options, threw |-> NoError]
    /\ presets = bulkCatalog
    /\ controls = [ currentPreset |-> "afterEffects",
                    currentPoints |-> spreadPoints(bulkCatalog, "afterEffects") ]
    /\ pc = Idle
    /\ pass = NoPass
    /\ seen = {}
    /\ nops = 0
    /\ frag = NoFrag

NextBulk ==
    \/ \E presetName \in DOMAIN bulkCatalog : PresetClick(presetName)
    \/ ApplyPresetPoint
    \/ ApplyPresetBlend
    \/ RenderBegin
    \/ \E sample \in CentreSample : RenderSample(sample)
    \/ RenderEnd

SpecBulk == InitBulk /\ [][NextBulk]_vars

\* ------------------------------------------------------------ properties
\* the step is the call `op` itself, made by a caller or a handler
Called(op) == nops' = nops + 1 /\ last'.op = op

InvalidDimensions == "InvalidDimensions"

\* C1: setPoint with an index outside [0,3] throws the index error and
\* leaves every field of the gradient as it was before the call.
SetPointRejectsIndexOutOfRange ==
    [][ (Called("setPoint") /\ last'.index \notin 0..3)
          => (last'.threw = IndexError /\ gradient' = gradient) ]_vars

SetPointRejectedWitness ==
    /\ last.op = "setPoint"
    /\ last.index \in {0 - 1, 4}
    /\ last.threw = IndexError

\* C2: in every reachable state the stored blend lies in [0,1].
BlendAlwaysInRange ==
    0 <= gradient.u_blend /\ gradient.u_blend <= BlendScale

\* C3: resize with a non-positive width or height fails with
\* InvalidDimensions and leaves the gradient unmodified.
ResizeRejectsNonPositive ==
    [][ (Called("resize") /\ (last'.width <= 0 \/ last'.height <= 0))
          => (last'.threw = InvalidDimensions /\ gradient' = gradient) ]_vars

\* C4: in every reachable state the gradient has exactly the four anchor
\* slots 1..4 (indices 0..3), for positions and for colours.
ExactlyFourAnchorSlots ==
    /\ DOMAIN gradient.u_point = 1..4
    /\ DOMAIN gradient.u_color = 1..4

FourSlotsWitness ==
    /\ last.op = "setPoint"
    /\ last.index = 3
    /\ last.threw = NoError
    /\ gradient.u_point[4] = last.position

\* C5: no sample of a render pass reads the gradient while a preset is
\* being applied, so none sees a preset applied in part.
NoPartialPresetObserved ==
    \A o \in seen : o.during # "applyPreset"

PresetObservedWitness ==
    /\ last.op = "applyPreset"
    /\ last.preset = "sunset"
    /\ \E o \in seen :
          /\ \A n \in 1..4 :
                o.uniforms.u_point[n] = presets["sunset"].points[n].position
          /\ o.uniforms.u_blend = presets["sunset"].blend

\* C6: all samples of one render pass read one and the same state, and the
\* gradient does not change while a pass is sampling.
PassReadsOneState ==
    [][ /\ pass.at = "sampling" => gradient' = gradient
        /\ Cardinality({ o.uniforms : o \in seen' }) <= 1 ]_vars

PassSampledWitness ==
    /\ pass.at = "sampling"
    /\ pass.n = MaxSamples
    /\ nops > 0
    /\ seen = { [uniforms |-> gradient, during |-> "idle"] }

\* C7: for an index in 0..3, setPoint without a colour replaces the anchor's
\* position and keeps its colour; with a colour it replaces both.
SetPointPartialUpdate ==
    [][ (Called("setPoint") /\ last'.index \in 0..3)
          => LET n == last'.index + 1
             IN  /\ gradient'.u_point[n] = last'.position
                 /\ last'.color = None =>
                        gradient'.u_color[n] = gradient.u_color[n]
                 /\ last'.color # None =>
                        gradient'.u_color[n] = hexToRGB(last'.color[1]) ]_vars

SetPointPartialWitness ==
    /\ last.op = "setPoint"
    /\ last.index \in 0..3
    /\ last.color = None
    /\ gradient.u_point[last.index + 1] = last.position
    /\ last.position # MainPoints[last.index + 1].position
    /\ gradient.u_color[last.index + 1] = hexToRGB(MainPoints[last.index + 1].color)

\* C8: resize with positive arguments leaves the anchors' positions, their
\* colours and the blend unchanged and stores the new dimensions.
ResizeKeepsAnchorsAndBlend ==
    [][ (Called("resize") /\ last'.width > 0 /\ last'.height > 0)
          => /\ gradient'.u_point = gradient.u_point
             /\ gradient'.u_color = gradient.u_color
             /\ gradient'.u_blend = gradient.u_blend
             /\ gradient'.u_resolution = <<last'.width, last'.height>> ]_vars

ResizePositiveWitness ==
    /\ last.op = "resize"
    /\ last.width > 0 /\ last.height > 0
    /\ gradient.u_resolution = <<last.width, last.height>>
    /\ gradient.u_point[1] = <<3, 7>>

\* C9: setBlend never fails and stores 0 for a value below 0, 1 for a value
\* above 1 and the value itself otherwise.
SetBlendStoresClamped ==
    [][ Called("setBlend")
          => /\ last'.threw = NoError
             /\ gradient'.u_blend =
                  (IF last'.value < 0 THEN 0
                   ELSE IF last'.value > BlendScale THEN BlendScale
                   ELSE last'.value) ]_vars

SetBlendClampedWitness ==
    /\ last.op = "setBlend"
    /\ last.value > BlendScale
    /\ gradient.u_blend = BlendScale

\* C10: in every reachable state the stored surface width and height are
\* both strictly greater than 0.
DimensionsAlwaysPositive ==
    /\ gradient.gradientWidth > 0
    /\ gradient.gradientHeight > 0
    /\ gradient.u_resolution[1] > 0
    /\ gradient.u_resolution[2] > 0

Shaded == frag.shaded /\ frag.out.defined

\* the sum of the four normalized weights' numerators
NormalizedSum(o) ==
    SumAdd(SumAdd(o.normalized[1].num, o.normalized[2].num),
           SumAdd(o.normalized[3].num, o.normalized[4].num))

\* d >= 0.0001 for a squared distance d: d.d <= d.n * 10^8
AtLeastMinDistance(d) ==
    d.n > 0 /\ (d.d + (d.n - 1)) \div d.n <= MinDistance.d

\* the anchors the sample of the shaded fragment coincides with
AnchorsAtSample == { i \in 1..4 : gradient.u_point[i] = frag.sample }

ChannelInUnitRange(ch) ==
    /\ DOMAIN ch.num \subseteq DOMAIN ch.den
    /\ DOMAIN ch.den # {}
    /\ \A a \in DOMAIN ch.den : Finite(a) /\ ch.den[a] > 0
    /\ \A a \in DOMAIN ch.num : 0 <= ch.num[a] /\ ch.num[a] <= 255 * ch.den[a]

\* C13: when every channel of the four anchor colours is in [0,1], every
\* channel of the colour of a sample is in [0,1].
ColourIsConvex ==
    (Shaded /\ \A i \in 1..4, c \in 1..3 :
                  0 <= gradient.u_color[i][c] /\ gradient.u_color[i][c] <= 255)
      => \A c \in 1..3 : ChannelInUnitRange(frag.out.gl_FragColor[c])

ColourConvexWitness ==
    /\ Shaded
    /\ Cardinality(DOMAIN frag.out.totalWeight) = 4
    /\ \E c \in 1..3 : \E a \in DOMAIN frag.out.gl_FragColor[c].num :
          /\ frag.out.gl_FragColor[c].num[a] > 0
          /\ frag.out.gl_FragColor[c].num[a] < 255

CentroidIsGrey ==
    ( /\ frag.shaded
      /\ frag.sample = <<5, 5>>
      /\ gradient.u_point = << <<1, 1>>, <<9, 1>>, <<9, 9>>, <<1, 9>> >>
      /\ gradient.u_color = << <<255, 255, 0>>, <<0, 255, 0>>,
                               <<0, 0, 255>>, <<255, 0, 255>> >>
      /\ 0 <= gradient.u_blend /\ gradient.u_blend <= BlendScale )
      => /\ frag.out.defined
         /\ \A c \in 1..3 :
               LET ch == frag.out.gl_FragColor[c]
               IN  /\ DOMAIN ch.num = DOMAIN ch.den
                   /\ DOMAIN ch.den # {}
                   /\ \A a \in DOMAIN ch.den :
                         Finite(a) /\ 2 * ch.num[a] = 255 * ch.den[a]

CentroidWitness ==
    /\ Shaded
    /\ frag.sample = <<5, 5>>
    /\ gradient.u_point = << <<1, 1>>, <<9, 1>>, <<9, 9>>, <<1, 9>> >>
    /\ gradient.u_color = << <<255, 255, 0>>, <<0, 255, 0>>,
                             <<0, 0, 255>>, <<255, 0, 255>> >>
    /\ gradient.u_blend = BlendScale
    /\ gradient.u_resolution # <<DefaultWidth, DefaultHeight>>

Permutations4 ==
    { f \in [1..4 -> 1..4] : \A i, j \in 1..4 : f[i] = f[j] => i = j }

\* the gradient with its four (position, colour) pairs relabelled
Relabelled(g, f) ==
    [g EXCEPT !.u_point = [n \in 1..4 |-> g.u_point[f[n]]],
              !.u_color = [n \in 1..4 |-> g.u_color[f[n]]]]

\* C16: for every permutation of the four (position, colour) pairs the
\* colour of the sample is the colour of the unpermuted configuration.
PermutationInvariant ==
    Shaded =>
        \A f \in Permutations4 :
            LET g == Relabelled(gradient, f)
            IN  fragmentMain(g, varyingUV(g, frag.sample)).gl_FragColor
                  = frag.out.gl_FragColor

PermutationWitness ==
    /\ Shaded
    /\ Cardinality({ gradient.u_point[i] : i \in 1..4 }) = 4
    /\ Cardinality({ gradient.u_color[i] : i \in 1..4 }) = 4
    /\ Cardinality(DOMAIN frag.out.totalWeight) = 4
    /\ last.op = "setPoint"

\* C17: the exponent is 0.5 + 3.5 * blend (in the exponent's units,
\* BlendScale + 7 * blend): 0.5 at blend 0 and 4.0 at blend 1.
ExponentIsLinear ==
    Shaded =>
        /\ frag.out.k = BlendScale + 7 * gradient.u_blend
        /\ gradient.u_blend = 0 => frag.out.k * 2 = 2 * BlendScale
        /\ gradient.u_blend = BlendScale => frag.out.k = 4 * (2 * BlendScale)

ExponentWitness ==
    /\ Shaded
    /\ gradient.u_blend = BlendScale
    /\ frag.out.k = 800

\* the normalized weight of anchor a is strictly larger in `hi` than in
\* `lo`: w_a / total = 1 / (1 + sum over j of (d_a / d_j) ^ k), and every
\* (d_a / d_j) ^ k with d_a < d_j is strictly smaller for the larger k
WeightRises(lo, hi, a) ==
    /\ lo.w[a].base = MinDistance /\ hi.w[a].base = MinDistance
    /\ \A j \in (1..4) \ {a} :
          /\ lo.w[j].base = hi.w[j].base
          /\ AtLeastMinDistance(lo.w[j].base) /\ lo.w[j].base # MinDistance
          /\ lo.w[j].exponent = lo.w[a].exponent
          /\ hi.w[j].exponent = hi.w[a].exponent
          /\ hi.w[j].exponent < lo.w[j].exponent
    /\ lo.normalized[a].num = (lo.w[a] :> 1)
    /\ hi.normalized[a].num = (hi.w[a] :> 1)
    /\ lo.normalized[a].den = Combine(lo.w, <<1, 1, 1, 1>>)
    /\ hi.normalized[a].den = Combine(hi.w, <<1, 1, 1, 1>>)

ResolutionIndependent ==
    Shaded =>
        \A dim \in PositiveDimInputs \cup { <<DefaultWidth, DefaultHeight>> } :
            LET g == resize(gradient, dim[1], dim[2])
            IN  /\ fragmentMain(g, varyingUV(g, frag.sample)).gl_FragColor
                     = frag.out.gl_FragColor
                /\ frag.out.pos = << Rat(frag.sample[1], 10), Rat(frag.sample[2], 10) >>

ResolutionWitness ==
    /\ Shaded
    /\ last.op = "resize"
    /\ gradient.u_resolution = <<3, 2>>
    /\ frag.sample = <<9, 4>>

\* C20: a sample shaded after a call reads the gradient as the call left
\* it: the clamped blend of setBlend, the position of setPoint, the size of
\* resize.
NextSampleSeesTheCall ==
    frag.shaded =>
        \A o \in seen :
            /\ o.uniforms = gradient
            /\ last.op = "setBlend" =>
                  o.uniforms.u_blend =
                     (IF last.value < 0 THEN 0
                      ELSE IF last.value > BlendScale THEN BlendScale
                      ELSE last.value)
            /\ (last.op = "setPoint" /\ last.threw = NoError) =>
                  o.uniforms.u_point[last.index + 1] = last.position
            /\ last.op = "resize" =>
                  o.uniforms.u_resolution = <<last.width, last.height>>

NextSampleWitness ==
    /\ frag.shaded
    /\ last.op = "setBlend"
    /\ last.value = 150
    /\ \E o \in seen : o.uniforms.u_blend = BlendScale

\* ------------------------------------------------ properties, continued
\* C21: from the start of a render pass to its end, whatever samples it
\* evaluates, the anchors' positions and colours, the blend and the surface
\* dimensions stay as they were.
EvaluationLeavesState ==
    [][ (pass.at = "sampling" \/ pass'.at = "sampling" \/ frag' # frag)
          => /\ gradient'.u_point = gradient.u_point
             /\ gradient'.u_color = gradient.u_color
             /\ gradient'.u_blend = gradient.u_blend
             /\ gradient'.u_resolution = gradient.u_resolution
             /\ gradient'.gradientWidth = gradient.gradientWidth
             /\ gradient'.gradientHeight = gradient.gradientHeight
             /\ gradient'.aVertexPosition = gradient.aVertexPosition ]_vars

EvaluationWitness ==
    /\ pass.at = "sampling"
    /\ pass.n = MaxSamples
    /\ frag.shaded
    /\ last.op = "setPoint"
    /\ last.threw = NoError
    /\ gradient.u_point[last.index + 1] = last.position

\* the corner of the unit square an anchor is nearest to
Quadrant(position) == << position[1] > 5, position[2] > 5 >>

\* C22: a construction with no options gives blend 0.5, one anchor in each
\* quadrant of the unit square and four distinct colours; a supplied option
\* replaces its own default and an omitted one keeps it.
ConstructorDefaults ==
    (last.op = "constructor") =>
        LET options == last.options
        IN  /\ options.blend = None => gradient.u_blend = 50
            /\ options.blend # None => gradient.u_blend = options.blend[1]
            /\ options.points = None =>
                  /\ \A n \in 1..4 :
                        /\ gradient.u_point[n][1] \in {2, 8}
                        /\ gradient.u_point[n][2] \in {2, 8}
                  /\ Cardinality({ Quadrant(gradient.u_point[n]) : n \in 1..4 }) = 4
                  /\ Cardinality({ gradient.u_color[n] : n \in 1..4 }) = 4
            /\ options.points # None =>
                  \A n \in 1..4 :
                      gradient.u_point[n] = options.points[1][n].position
            /\ options.width = None => gradient.gradientWidth = 800
            /\ options.width # None => gradient.gradientWidth = options.width[1]
            /\ options.height = None => gradient.gradientHeight = 600
            /\ options.height # None => gradient.gradientHeight = options.height[1]

ConstructorDefaultsWitness ==
    /\ last.op = "constructor"
    /\ last.options.points = None
    /\ last.options.width = None
    /\ last.options.blend = Some(MainBlend)
    /\ gradient.u_blend = MainBlend
    /\ gradient.u_point[3] = <<8, 8>>

\* C23: two anchors at the same floored distance from the sample have
\* equal normalized weights, whichever slots they are in.
EquidistantEqualWeights ==
    Shaded =>
        \A i, j \in 1..4 :
            frag.out.d[i] = frag.out.d[j]
              => frag.out.normalized[i] = frag.out.normalized[j]

EquidistantWitness ==
    /\ Shaded
    /\ frag.out.d[2] = frag.out.d[4]
    /\ frag.out.d[1] # frag.out.d[4]
    /\ frag.out.normalized[2] = frag.out.normalized[4]
    /\ gradient.u_blend # DefaultBlend

\* the channels are bits 16-23, 8-15 and 0-7 of the colour: each is in
\* 0..255 and together they are the colour modulo 2^24
ChannelsOfBits(rgb, color) ==
    /\ \A c \in 1..3 : rgb[c] \in 0..255
    /\ (color - (rgb[1] * 65536 + rgb[2] * 256 + rgb[3])) % 16777216 = 0

\* C24: every stored channel of every anchor colour is in [0,1], and the
\* colour stored by the constructor or by setPoint for an integer colour
\* is that colour's three bytes over 255.
StoredColoursInUnitRange ==
    /\ \A n \in DOMAIN gradient.u_color : \A c \in 1..3 :
          0 <= gradient.u_color[n][c] /\ gradient.u_color[n][c] <= 255
    /\ (last.op = "setPoint" /\ last.threw = NoError /\ last.color # None)
          => ChannelsOfBits(gradient.u_color[last.index + 1], last.color[1])
    /\ (last.op = "constructor" /\ last.options.points # None)
          => \A n \in 1..4 :
                ChannelsOfBits(gradient.u_color[n], last.options.points[1][n].color)

StoredColoursWitness ==
    /\ last.op = "setPoint"
    /\ last.threw = NoError
    /\ last.color = Some(0 - 2)
    /\ gradient.u_color[last.index + 1] = <<255, 255, 254>>

\* C25: a colour edit made after a preset was applied leaves every anchor's
\* position where the preset put it and changes no other anchor's colour.
ColourEditKeepsPosition ==
    [][ (Called("colorInput") /\ last.op = "applyPreset" /\ last.applied
                              /\ last.threw = NoError)
          => /\ gradient'.u_point = gradient.u_point
             /\ \A n \in 1..4 :
                   n # last'.index + 1 => gradient'.u_color[n] = gradient.u_color[n] ]_vars

\* C26: the catalog holds what it was written with, and a preset that has
\* been applied leaves the gradient with the colours written in the catalog.
CatalogNeverModified ==
    /\ presets = presetsCatalog
    /\ (pc.at = "idle" /\ last.op = "applyPreset" /\ last.applied
                       /\ last.threw = NoError)
          => \A n \in 1..4 :
                /\ gradient.u_point[n] = presetsCatalog[last.preset].points[n].position
                /\ gradient.u_color[n] = hexToRGB(presetsCatalog[last.preset].points[n].color)

\* the preset each digit key stands for
KeyPreset ==
    [ k \in {"1", "2", "3", "4"} |->
        CASE k = "1" -> "afterEffects" [] k = "2" -> "sunset"
          [] k = "3" -> "ocean"        [] k = "4" -> "fire" ]

ApplyPresetWitness ==
    /\ pc.at = "idle"
    /\ last.op = "applyPreset"
    /\ last.preset = "fire"
    /\ controls.currentPreset = "fire"
    /\ gradient.u_point[1] = <<5, 1>>
    /\ gradient.u_color[4] = <<255, 140, 0>>
    /\ gradient.u_blend = 60
    /\ nops = 2

\* the accessors, the evaluator's resolution and the quad hold one size
DimensionsAgree(g) ==
    /\ g.u_resolution = << g.gradientWidth, g.gradientHeight >>
    /\ g.aVertexPosition = << 0, 0, g.gradientWidth, 0,
                              g.gradientWidth, g.gradientHeight,
                              0, g.gradientHeight >>

\* C28: the accessors, the resolution and the quad always hold the same
\* (width, height): that of construction until a resize, then that of the
\* most recent resize.
AccessorsAgree ==
    [][ /\ DimensionsAgree(gradient)
        /\ DimensionsAgree(gradient')
        /\ last.op = "constructor" =>
              /\ gradient.gradientWidth =
                    (IF last.options.width = None THEN 800 ELSE last.options.width[1])
              /\ gradient.gradientHeight =
                    (IF last.options.height = None THEN 600 ELSE last.options.height[1])
        /\ IF Called("resize")
           THEN /\ gradient'.gradientWidth = last'.width
                /\ gradient'.gradientHeight = last'.height
           ELSE /\ gradient'.gradientWidth = gradient.gradientWidth
                /\ gradient'.gradientHeight = gradient.gradientHeight ]_vars

AccessorsWitness ==
    /\ last.op = "resize"
    /\ nops = 2
    /\ gradient.gradientWidth = 3
    /\ gradient.gradientHeight = 2
    /\ gradient.u_resolution = <<3, 2>>
    /\ gradient.aVertexPosition[5] = 3
    /\ gradient.aVertexPosition[6] = 2

\* C29: setPoint with an index in 0..3 leaves the other three anchors, the
\* blend and the surface dimensions as they were, and setBlend leaves
\* everything but the blend as it was.
SetPointSetBlendFrame ==
    [][ /\ (Called("setPoint") /\ last'.index \in 0..3)
            => /\ DOMAIN gradient'.u_point = DOMAIN gradient.u_point
               /\ DOMAIN gradient'.u_color = DOMAIN gradient.u_color
               /\ \A n \in (1..4) \ { last'.index + 1 } :
                     /\ gradient'.u_point[n] = gradient.u_point[n]
                     /\ gradient'.u_color[n] = gradient.u_color[n]
               /\ gradient'.u_blend = gradient.u_blend
               /\ gradient'.u_resolution = gradient.u_resolution
               /\ gradient'.gradientWidth = gradient.gradientWidth
               /\ gradient'.gradientHeight = gradient.gradientHeight
               /\ gradient'.aVertexPosition = gradient.aVertexPosition
        /\ Called("setBlend")
            => gradient' = [gradient EXCEPT !.u_blend = gradient'.u_blend] ]_vars

SetPointFrameWitness ==
    /\ last.op = "setPoint"
    /\ last.index = 0
    /\ last.threw = NoError
    /\ last.color = Some(16777471)
    /\ gradient.u_color[1] = <<0, 0, 255>>
    /\ gradient.u_color[2] = <<0, 255, 0>>
    /\ gradient.u_point[1] = <<3, 7>>
    /\ gradient.u_point[2] # <<3, 7>>

====
